---- MODULE Spec2Model ----
(***************************************************************************)
(* Model of app.py, the Streamlit "Witness Archive" dashboard.  The script *)
(* runs top to bottom on every interaction: load_data (cached), the        *)
(* sidebar widgets, the four filter masks, the chart aggregates and the    *)
(* testimony viewer.  pc is the position of the script run.                *)
(*                                                                         *)
(* Text cells are strings.  Timestamps (pandas datetime64) are minutes     *)
(* since 1970-01-01 00:00, Python dates are days since 1970-01-01.         *)
(***************************************************************************)
EXTENDS Integers, Sequences, FiniteSets, TLC

VARIABLES df, meta, pc,
          selected_emotions, selected_themes, selected_sources, source_search,
          start_date, end_date,
          filtered_df,
          emotion_counts, theme_counts, src_counts,
          labels, indices, selected_label, selected_row

vars == <<df, meta, pc, selected_emotions, selected_themes, selected_sources,
          source_search, start_date, end_date, filtered_df,
          emotion_counts, theme_counts, src_counts,
          labels, indices, selected_label, selected_row>>

----------------------------------------------------------------------------
(* Bounds of the model *)

\* rows of the CSV file
MaxRows == 2
\* columns of the CSV file in the column-resolution specification
MaxCols == 3

----------------------------------------------------------------------------
(* Missing values *)

\* Python None (an undetected column, an unset selection)
None == "None"
\* a missing text cell: read_csv reads an empty or "NaN" field as NaN
NaN == "NaN"
\* a missing timestamp
NaT == -1
\* None in start_date / end_date (every date is >= 0)
NoDate == -1

----------------------------------------------------------------------------
(* Sequences and strings *)

Range(s) == {s[i] : i \in 1..Len(s)}

LowerChar(c) ==
    CASE c = "T" -> "t" [] c = "S" -> "s" [] c = "U" -> "u" [] c = "N" -> "n"
      [] c = "R" -> "r" [] c = "I" -> "i" [] c = "B" -> "b" [] c = "A" -> "a"
      [] OTHER -> c

RECURSIVE lower(_)
lower(s) == IF s = "" THEN ""
            ELSE LowerChar(SubSeq(s, 1, 1)) \o lower(SubSeq(s, 2, Len(s)))

\* Python's  a in b  on strings
Contains(a, b) ==
    \E i \in 1..(Len(b) - Len(a) + 1) : SubSeq(b, i, i + Len(a) - 1) = a

----------------------------------------------------------------------------
(* Calendar *)

MinutesPerDay == 1440

IsLeap(y) == (y % 4 = 0 /\ y % 100 # 0) \/ y % 400 = 0

DaysInMonth(y, m) ==
    CASE m \in {1, 3, 5, 7, 8, 10, 12} -> 31
      [] m \in {4, 6, 9, 11} -> 30
      [] OTHER -> IF IsLeap(y) THEN 29 ELSE 28

LeapsBefore(y) == ((y - 1) \div 4) - ((y - 1) \div 100) + ((y - 1) \div 400)

\* days from 1970-01-01 to y-01-01
DaysBeforeYear(y) == 365 * (y - 1970) + LeapsBefore(y) - LeapsBefore(1970)

RECURSIVE DaysBeforeMonth(_, _)
DaysBeforeMonth(y, m) ==
    IF m = 1 THEN 0 ELSE DaysBeforeMonth(y, m - 1) + DaysInMonth(y, m - 1)

ToOrdinal(y, m, d) == DaysBeforeYear(y) + DaysBeforeMonth(y, m) + d - 1

YearOf(o) == CHOOSE y \in (1970 + o \div 366)..(1970 + o \div 365) :
                 DaysBeforeYear(y) <= o /\ o < DaysBeforeYear(y + 1)
MonthOf(o) == LET y == YearOf(o) r == o - DaysBeforeYear(y)
              IN  CHOOSE m \in 1..12 :
                      /\ DaysBeforeMonth(y, m) <= r
                      /\ r < DaysBeforeMonth(y, m) + DaysInMonth(y, m)
DayOf(o) == LET y == YearOf(o)
            IN  o - DaysBeforeYear(y) - DaysBeforeMonth(y, MonthOf(o)) + 1

Digits == <<"0", "1", "2", "3", "4", "5", "6", "7", "8", "9">>

IsDigit(c) == \E i \in 1..10 : Digits[i] = c
DigitVal(c) == (CHOOSE i \in 1..10 : Digits[i] = c) - 1

RECURSIVE ParseInt(_)
ParseInt(s) == IF s = "" THEN 0
               ELSE 10 * ParseInt(SubSeq(s, 1, Len(s) - 1))
                    + DigitVal(SubSeq(s, Len(s), Len(s)))

AllDigits(s) == \A i \in 1..Len(s) : IsDigit(SubSeq(s, i, i))

RECURSIVE ZeroPad(_, _)
\* n written in decimal on w digits
ZeroPad(n, w) == IF w = 0 THEN ""
                 ELSE ZeroPad(n \div 10, w - 1) \o Digits[(n % 10) + 1]

\* pd.to_datetime(cell, errors="coerce") on a cell "YYYY-MM-DD HH:MM";
\* anything else the model feeds it is missing or not a date
to_datetime(s) ==
    IF s = NaN \/ Len(s) # 16 THEN NaT
    ELSE LET ys == SubSeq(s, 1, 4)   ms == SubSeq(s, 6, 7)
             ds == SubSeq(s, 9, 10)  hs == SubSeq(s, 12, 13)
             ns == SubSeq(s, 15, 16)
         IN  IF /\ SubSeq(s, 5, 5) = "-" /\ SubSeq(s, 8, 8) = "-"
                /\ SubSeq(s, 11, 11) = " " /\ SubSeq(s, 14, 14) = ":"
                /\ AllDigits(ys) /\ AllDigits(ms) /\ AllDigits(ds)
                /\ AllDigits(hs) /\ AllDigits(ns)
                /\ ParseInt(ys) \in 1970..2098
                /\ ParseInt(ms) \in 1..12
                /\ ParseInt(ds) \in 1..DaysInMonth(ParseInt(ys), ParseInt(ms))
                /\ ParseInt(hs) \in 0..23 /\ ParseInt(ns) \in 0..59
             THEN ToOrdinal(ParseInt(ys), ParseInt(ms), ParseInt(ds)) * MinutesPerDay
                  + ParseInt(hs) * 60 + ParseInt(ns)
             ELSE NaT

\* Timestamp.date() / Series.dt.date
date(ts) == ts \div MinutesPerDay

\* Timestamp.strftime("%Y-%m-%d")
strftime(ts) ==
    LET o == date(ts)
    IN  ZeroPad(YearOf(o), 4) \o "-" \o ZeroPad(MonthOf(o), 2) \o "-"
        \o ZeroPad(DayOf(o), 2)

----------------------------------------------------------------------------
(* Column detection *)

TitleCandidates   == <<"Title", "Article Title", "Headline">>
EmotionCandidates == <<"Emotion", "Primary Emotion", "emotion_label">>
ThemeCandidates   == <<"Theme", "Primary Theme", "Topic">>
SourceCandidates  == <<"Source", "Outlet", "Publication">>
DateCandidates    == <<"Publication Date", "Date", "Published", "Date Published">>
TextCandidates    == <<"Quote", "Narrative", "Excerpt", "Snippet", "Summary",
                       "Full Text", "Text", "Content", "Body">>
UrlCandidates     == <<"URL", "Link", "Article URL">>

RECURSIVE pick_from(_, _, _)
pick_from(columns, candidates, i) ==
    IF i > Len(candidates) THEN None
    ELSE IF candidates[i] \in Range(columns) THEN candidates[i]
         ELSE pick_from(columns, candidates, i + 1)

RECURSIVE pick_by_column(_, _, _)
pick_by_column(columns, candidates, i) ==
    IF i > Len(columns) THEN None
    ELSE IF columns[i] \in Range(candidates) THEN columns[i]
         ELSE pick_by_column(columns, candidates, i + 1)

\* pick_column with the loops swapped: the first column that is a candidate
pick_column_df_order(d, candidates) == pick_by_column(d.columns, candidates, 1)

\* pick_column(df, candidates): the first candidate that is a column of df
pick_column(d, candidates) == pick_from(d.columns, candidates, 1)

----------------------------------------------------------------------------
(* The CSV files the model reads *)

\* the role a column name is an alias of
ColumnKind(c) ==
    CASE c \in Range(TitleCandidates)   -> "title"
      [] c \in Range(EmotionCandidates) -> "emotion"
      [] c \in Range(ThemeCandidates)   -> "theme"
      [] c \in Range(SourceCandidates)  -> "source"
      [] c \in Range(DateCandidates)    -> "date"
      [] OTHER -> "other"

\* the records the files are made of, cell by kind of column
RowPool ==
    { [title |-> "Raid",  emotion |-> "Fear",  theme |-> "Legal", source |-> "Tribune",
       date |-> "2024-02-28 09:00", other |-> "x"],
      [title |-> "Raid",  emotion |-> "Anger", theme |-> "Legal", source |-> "Sun",
       date |-> "2024-03-01 13:00", other |-> "x"],
      [title |-> NaN,     emotion |-> "Fear",  theme |-> NaN,     source |-> "Tribune",
       date |-> NaN,                other |-> "x"],
      [title |-> NaN,     emotion |-> NaN,     theme |-> "Legal", source |-> NaN,
       date |-> "2024-02-28 09:00", other |-> "x"],
      [title |-> "Raid",  emotion |-> "Fear",  theme |-> "Legal", source |-> "Tribune",
       date |-> "soon",             other |-> "x"],
      [title |-> "Raid",  emotion |-> "Anger", theme |-> NaN,     source |-> "Tribune",
       date |-> "2024-02-28 17:30", other |-> "x"] }

\* the header rows of the files
Headers ==
    { <<"Title", "Emotion", "Theme", "Source", "Publication Date">>,
      <<"Date", "Outlet", "Headline", "Title", "emotion_label">>,
      <<"Emotion", "Source", "Notes">>,
      <<"Title", "Date Published", "Notes">> }

\* the column names of the column-resolution specification
ColNames ==
    { "Title", "Headline", "Emotion", "emotion_label", "Theme", "Topic",
      "Source", "Publication", "Publication Date", "Date", "Published",
      "Date Published", "Quote", "Summary", "Body", "URL", "Article URL",
      "Notes", "title" }

\* what the source-search box may hold
SearchTexts == {"", "TRIB", "un", "zz"}

SeqsUpTo(S, n) == UNION {[1..k -> S] : k \in 0..n}

IsInjective(s) == \A i, j \in 1..Len(s) : s[i] = s[j] => i = j

\* pd.read_csv: the frame of a file with the given header and records
read_csv(header, recs) ==
    [columns |-> header,
     rows    |-> [i \in 1..Len(recs) |->
                    [c \in Range(header) |-> recs[i][ColumnKind(c)]]]]

NoMeta == [title_col |-> None, emotion_col |-> None, theme_col |-> None,
           source_col |-> None, date_col |-> None, text_col |-> None,
           url_col |-> None]

----------------------------------------------------------------------------
(* load_data *)

detect(d) ==
    [title_col   |-> pick_column(d, TitleCandidates),
     emotion_col |-> pick_column(d, EmotionCandidates),
     theme_col   |-> pick_column(d, ThemeCandidates),
     source_col  |-> pick_column(d, SourceCandidates),
     date_col    |-> pick_column(d, DateCandidates),
     text_col    |-> pick_column(d, TextCandidates),
     url_col     |-> pick_column(d, UrlCandidates)]

\* df[date_col] = pd.to_datetime(df[date_col], errors="coerce")
convert_dates(d, date_col) ==
    IF date_col # None /\ date_col \in Range(d.columns)
    THEN [d EXCEPT !.rows = [i \in 1..Len(d.rows) |->
                               [d.rows[i] EXCEPT ![date_col] = to_datetime(@)]]]
    ELSE d

Unset == /\ selected_emotions = None /\ selected_themes = None
         /\ selected_sources = None /\ source_search = ""
         /\ start_date = NoDate /\ end_date = NoDate
         /\ filtered_df = <<>>
         /\ emotion_counts = <<>> /\ theme_counts = <<>> /\ src_counts = <<>>
         /\ labels = <<>> /\ indices = <<>>
         /\ selected_label = None /\ selected_row = <<>>

load_data ==
    /\ pc = "load"
    /\ meta' = detect(df)
    /\ df' = convert_dates(df, meta'.date_col)
    /\ pc' = "sidebar"
    /\ UNCHANGED <<selected_emotions, selected_themes, selected_sources,
                   source_search, start_date, end_date, filtered_df,
                   emotion_counts, theme_counts, src_counts,
                   labels, indices, selected_label, selected_row>>

----------------------------------------------------------------------------
(* Sidebar filters *)

\* sorted(df[col].dropna().unique()); the order only arranges the widget
unique_values(d, col) == {d.rows[i][col] : i \in 1..Len(d.rows)} \ {NaN}

\* [s for s in all_sources if source_search.lower() in str(s).lower()]
filtered_sources_list(all_sources, search) ==
    IF search # ""
    THEN {s \in all_sources : Contains(lower(search), lower(s))}
    ELSE all_sources

Timestamps(d, col) == {d.rows[i][col] : i \in 1..Len(d.rows)} \ {NaT}

\* df[date_col].min() and .max(): NaT is skipped, NaT if nothing is left
min_date(d, col) ==
    IF Timestamps(d, col) = {} THEN NaT
    ELSE CHOOSE t \in Timestamps(d, col) : \A u \in Timestamps(d, col) : t <= u
max_date(d, col) ==
    IF Timestamps(d, col) = {} THEN NaT
    ELSE CHOOSE t \in Timestamps(d, col) : \A u \in Timestamps(d, col) : t >= u

\* whether the date_input widget is shown
HasDateInput ==
    /\ meta.date_col # None
    /\ min_date(df, meta.date_col) # NaT /\ max_date(df, meta.date_col) # NaT

Sidebar ==
    /\ pc = "sidebar"
    /\ IF meta.emotion_col # None
       THEN selected_emotions' \in SUBSET unique_values(df, meta.emotion_col)
       ELSE selected_emotions' = None
    /\ IF meta.theme_col # None
       THEN selected_themes' \in SUBSET unique_values(df, meta.theme_col)
       ELSE selected_themes' = None
    /\ IF meta.source_col # None
       THEN /\ source_search' \in SearchTexts
            /\ selected_sources' \in SUBSET filtered_sources_list(
                   unique_values(df, meta.source_col), source_search')
       ELSE /\ source_search' = ""
            /\ selected_sources' = None
    /\ IF HasDateInput
       THEN /\ start_date' \in date(min_date(df, meta.date_col))
                                ..date(max_date(df, meta.date_col))
            /\ end_date' \in start_date'..date(max_date(df, meta.date_col))
       ELSE /\ start_date' = NoDate
            /\ end_date' = NoDate
    /\ pc' = "emotion"
    /\ UNCHANGED <<df, meta, filtered_df, emotion_counts, theme_counts,
                   src_counts, labels, indices, selected_label, selected_row>>

----------------------------------------------------------------------------
(* Apply filters *)

\* df.copy(): the rows under their index labels 0, 1, ...
copy(d) == [i \in 1..Len(d.rows) |-> [idx |-> i - 1, row |-> d.rows[i]]]

\* isin followed by reset_index(drop=True): the rows are renumbered
isin_reset(f, col, values) ==
    LET g == SelectSeq(f, LAMBDA r : r.row[col] \in values)
    IN  [i \in 1..Len(g) |-> [idx |-> i - 1, row |-> g[i].row]]

\* f[f[col].isin(values)]
isin(f, col, values) == SelectSeq(f, LAMBDA r : r.row[col] \in values)

\* between comparing the timestamps, not their dates, with the bounds
between_ts(f, col, s, e) ==
    SelectSeq(f, LAMBDA r : /\ r.row[col] # NaT
                            /\ r.row[col] >= s * MinutesPerDay
                            /\ r.row[col] <= e * MinutesPerDay)

\* f[(f[col].dt.date >= s) & (f[col].dt.date <= e)]; a comparison with NaT
\* is False
between(f, col, s, e) ==
    SelectSeq(f, LAMBDA r : /\ r.row[col] # NaT
                            /\ date(r.row[col]) >= s
                            /\ date(r.row[col]) <= e)

ApplyEmotion ==
    /\ pc = "emotion"
    /\ filtered_df' = IF meta.emotion_col # None /\ selected_emotions # {}
                      THEN isin(copy(df), meta.emotion_col, selected_emotions)
                      ELSE copy(df)
    /\ pc' = "theme"
    /\ UNCHANGED <<df, meta, selected_emotions, selected_themes,
                   selected_sources, source_search, start_date, end_date,
                   emotion_counts, theme_counts, src_counts,
                   labels, indices, selected_label, selected_row>>

ApplyTheme ==
    /\ pc = "theme"
    /\ filtered_df' = IF meta.theme_col # None /\ selected_themes # {}
                      THEN isin(filtered_df, meta.theme_col, selected_themes)
                      ELSE filtered_df
    /\ pc' = "source"
    /\ UNCHANGED <<df, meta, selected_emotions, selected_themes,
                   selected_sources, source_search, start_date, end_date,
                   emotion_counts, theme_counts, src_counts,
                   labels, indices, selected_label, selected_row>>

ApplySource ==
    /\ pc = "source"
    /\ filtered_df' = IF meta.source_col # None /\ selected_sources # {}
                      THEN isin(filtered_df, meta.source_col, selected_sources)
                      ELSE filtered_df
    /\ pc' = "date"
    /\ UNCHANGED <<df, meta, selected_emotions, selected_themes,
                   selected_sources, source_search, start_date, end_date,
                   emotion_counts, theme_counts, src_counts,
                   labels, indices, selected_label, selected_row>>

ApplyDate ==
    /\ pc = "date"
    /\ filtered_df' = IF /\ meta.date_col # None
                         /\ start_date # NoDate /\ end_date # NoDate
                      THEN between(filtered_df, meta.date_col, start_date, end_date)
                      ELSE filtered_df
    /\ pc' = "tabs"
    /\ UNCHANGED <<df, meta, selected_emotions, selected_themes,
                   selected_sources, source_search, start_date, end_date,
                   emotion_counts, theme_counts, src_counts,
                   labels, indices, selected_label, selected_row>>

----------------------------------------------------------------------------
(* Chart aggregates *)

\* value_counts(dropna=False): a missing value is a label too
value_counts_keepna(f, col) ==
    [v \in {f[i].row[col] : i \in 1..Len(f)} |->
        Cardinality({i \in 1..Len(f) : f[i].row[col] = v})]

\* f[col].value_counts(): label -> number of rows, missing values dropped
value_counts(f, col) ==
    [v \in {f[i].row[col] : i \in 1..Len(f)} \ {NaN} |->
        Cardinality({i \in 1..Len(f) : f[i].row[col] = v})]

Tabs ==
    /\ pc = "tabs"
    /\ emotion_counts' = IF meta.emotion_col # None /\ filtered_df # <<>>
                         THEN value_counts(filtered_df, meta.emotion_col)
                         ELSE <<>>
    /\ theme_counts' = IF meta.theme_col # None /\ filtered_df # <<>>
                       THEN value_counts(filtered_df, meta.theme_col)
                       ELSE <<>>
    /\ src_counts' = IF meta.source_col # None /\ filtered_df # <<>>
                     THEN value_counts(filtered_df, meta.source_col)
                     ELSE <<>>
    /\ pc' = "viewer"
    /\ UNCHANGED <<df, meta, selected_emotions, selected_themes,
                   selected_sources, source_search, start_date, end_date,
                   filtered_df, labels, indices, selected_label, selected_row>>

----------------------------------------------------------------------------
(* Data & testimony viewer *)

Orders(n) == {p \in [1..n -> 1..n] : \A i, j \in 1..n : p[i] = p[j] => i = j}

\* f.sort_values(col, ascending=False): the orders the default (unstable)
\* sort may leave the rows in; NaT sorts last
sort_values(f, col) ==
    {g \in {[i \in 1..Len(f) |-> f[p[i]]] : p \in Orders(Len(f))} :
        \A i, j \in 1..Len(g) :
            i < j => \/ g[j].row[col] = NaT
                     \/ /\ g[i].row[col] # NaT
                        /\ g[i].row[col] >= g[j].row[col]}

\* the em dash of the label, in ASCII
Dash == "--"

\* build_label with the fallback title of the detail card
build_label_card(row, m) ==
    LET title_val  == IF m.title_col # None /\ row[m.title_col] # NaN
                      THEN row[m.title_col] ELSE "Untitled testimony"
        source_val == IF m.source_col # None /\ row[m.source_col] # NaN
                      THEN row[m.source_col] ELSE "Unknown source"
        date_val   == IF m.date_col # None /\ row[m.date_col] # NaT
                      THEN strftime(row[m.date_col]) ELSE "No date"
    IN  title_val \o " " \o Dash \o " " \o source_val \o " " \o Dash \o " " \o date_val

\* the dropdown label of a row
build_label(row, m) ==
    LET title_val  == IF m.title_col # None /\ row[m.title_col] # NaN
                      THEN row[m.title_col] ELSE "Untitled"
        source_val == IF m.source_col # None /\ row[m.source_col] # NaN
                      THEN row[m.source_col] ELSE "Unknown source"
        date_val   == IF m.date_col # None /\ row[m.date_col] # NaT
                      THEN strftime(row[m.date_col]) ELSE "No date"
    IN  title_val \o " " \o Dash \o " " \o source_val \o " " \o Dash \o " " \o date_val

\* the last position of x instead of the first
rindex(l, x) == CHOOSE i \in 1..Len(l) : l[i] = x /\ \A j \in (i + 1)..Len(l) : l[j] # x

\* list.index(x): the first position of x, counted from 1
index(l, x) == CHOOSE i \in 1..Len(l) : l[i] = x /\ \A j \in 1..(i - 1) : l[j] # x

\* f.loc[label]: the row under an index label
loc(f, label) == f[CHOOSE i \in 1..Len(f) : f[i].idx = label]

Viewer ==
    /\ pc = "viewer"
    /\ IF filtered_df = <<>>
       THEN UNCHANGED <<filtered_df, labels, indices, selected_label, selected_row>>
       ELSE /\ IF meta.date_col # None
               THEN filtered_df' \in sort_values(filtered_df, meta.date_col)
               ELSE filtered_df' = filtered_df
            /\ labels' = [i \in 1..Len(filtered_df') |->
                             build_label(filtered_df'[i].row, meta)]
            /\ indices' = [i \in 1..Len(filtered_df') |-> filtered_df'[i].idx]
            /\ selected_label' \in Range(labels')
            /\ selected_row' = loc(filtered_df',
                                   indices'[index(labels', selected_label')])
    /\ pc' = "done"
    /\ UNCHANGED <<df, meta, selected_emotions, selected_themes,
                   selected_sources, source_search, start_date, end_date,
                   emotion_counts, theme_counts, src_counts>>

\* an interaction reruns the script; load_data is cached
Rerun ==
    /\ pc = "done"
    /\ pc' = "sidebar"
    /\ selected_emotions' = None /\ selected_themes' = None
    /\ selected_sources' = None /\ source_search' = ""
    /\ start_date' = NoDate /\ end_date' = NoDate
    /\ filtered_df' = <<>>
    /\ emotion_counts' = <<>> /\ theme_counts' = <<>> /\ src_counts' = <<>>
    /\ labels' = <<>> /\ indices' = <<>>
    /\ selected_label' = None /\ selected_row' = <<>>
    /\ UNCHANGED <<df, meta>>

----------------------------------------------------------------------------
(* Specifications *)

Init ==
    /\ \E header \in Headers, recs \in SeqsUpTo(RowPool, MaxRows) :
           df = read_csv(header, recs)
    /\ meta = NoMeta
    /\ pc = "load"
    /\ Unset

Next ==
    \/ load_data
    \/ Sidebar
    \/ ApplyEmotion
    \/ ApplyTheme
    \/ ApplySource
    \/ ApplyDate
    \/ Tabs
    \/ Viewer
    \/ Rerun

Spec == Init /\ [][Next]_vars

\* the files of the column-resolution specification: any header row
InitCols ==
    /\ \E header \in SeqsUpTo(ColNames, MaxCols) :
           /\ IsInjective(header)
           /\ df = read_csv(header, <<>>)
    /\ meta = NoMeta
    /\ pc = "load"
    /\ Unset

NextCols == load_data

SpecCols == InitCols /\ [][NextCols]_vars

----------------------------------------------------------------------------
(* Properties *)

\* the position of a row of df in the view, as a set of view positions
InView(f, i) == {k \in 1..Len(f) : f[k].idx = i - 1}

\* a categorical selection that holds every value observed at load time
FullCat(col, sel) == col # None => sel = unique_values(df, col)

\* the date interval is [min date, max date] of the table
FullDates ==
    HasDateInput => /\ start_date = date(min_date(df, meta.date_col))
                    /\ end_date = date(max_date(df, meta.date_col))

\* C1: with every categorical selection equal to the full set of observed
\* values and the date interval [min, max], the filtered view before the
\* viewer's sort is the whole table in load order, missing cells included.
C1_IdentityLaw ==
    ( /\ pc = "tabs"
      /\ FullCat(meta.emotion_col, selected_emotions)
      /\ FullCat(meta.theme_col, selected_themes)
      /\ FullCat(meta.source_col, selected_sources)
      /\ FullDates )
    => filtered_df = copy(df)

\* the categorical predicate as the claim states it
PassesCat(col, sel, r) ==
    \/ col = None
    \/ sel = unique_values(df, col)
    \/ r.row[col] \in sel

\* C2: each categorical mask keeps a row exactly when its value is selected,
\* or the role has no column, or the selection is the full set of observed
\* values (then every row passes, also one whose value is missing).
C2_CategoricalPredicate ==
    [][ /\ pc = "emotion" =>
             filtered_df' = SelectSeq(copy(df), LAMBDA r :
                                PassesCat(meta.emotion_col, selected_emotions, r))
        /\ pc = "theme" =>
             filtered_df' = SelectSeq(filtered_df, LAMBDA r :
                                PassesCat(meta.theme_col, selected_themes, r))
        /\ pc = "source" =>
             filtered_df' = SelectSeq(filtered_df, LAMBDA r :
                                PassesCat(meta.source_col, selected_sources, r))
      ]_vars

\* the user deselected every value of a role that has a column and values
Deselected(col, sel) == col # None /\ unique_values(df, col) # {} /\ sel = {}

\* C3: when a categorical role has a column and the user has deselected all
\* of its values, the filtered view is empty.
C3_ExplicitEmptyExcludesAll ==
    ( /\ pc = "tabs"
      /\ \/ Deselected(meta.emotion_col, selected_emotions)
         \/ Deselected(meta.theme_col, selected_themes)
         \/ Deselected(meta.source_col, selected_sources) )
    => filtered_df = <<>>

\* a calendar date as <<year, month, day>>
Civil(o) == <<YearOf(o), MonthOf(o), DayOf(o)>>

\* a <= b on calendar dates
CivilLeq(a, b) ==
    \/ a[1] < b[1]
    \/ a[1] = b[1] /\ a[2] < b[2]
    \/ a[1] = b[1] /\ a[2] = b[2] /\ a[3] <= b[3]

\* C4: with a date column and an active interval the date mask keeps a row
\* exactly when its calendar date d has start <= d <= end, and drops every
\* row without a date; with no active interval the mask drops nothing.
C4_DatePredicate ==
    [][ pc = "date" =>
          IF HasDateInput
          THEN filtered_df' =
                 SelectSeq(filtered_df, LAMBDA r :
                    /\ r.row[meta.date_col] # NaT
                    /\ CivilLeq(Civil(start_date), Civil(date(r.row[meta.date_col])))
                    /\ CivilLeq(Civil(date(r.row[meta.date_col])), Civil(end_date)))
          ELSE filtered_df' = filtered_df
      ]_vars

\* C4 happens: a row without a date was dropped and a row dated on the end
\* day, later than midnight, was kept
C4_Witness ==
    /\ pc = "tabs"
    /\ HasDateInput
    /\ \E i \in 1..Len(df.rows) :
           df.rows[i][meta.date_col] = NaT /\ InView(filtered_df, i) = {}
    /\ \E k \in 1..Len(filtered_df) :
           /\ date(filtered_df[k].row[meta.date_col]) = end_date
           /\ filtered_df[k].row[meta.date_col] > end_date * MinutesPerDay

\* C5: at every step every row of the view is a row of the table under its
\* own index label with its cells unchanged, no row occurs twice, and until
\* the viewer's sort the rows are in load order.
C5_Subsequence ==
    /\ \A k \in 1..Len(filtered_df) :
           /\ filtered_df[k].idx \in 0..(Len(df.rows) - 1)
           /\ filtered_df[k].row = df.rows[filtered_df[k].idx + 1]
    /\ \A j, k \in 1..Len(filtered_df) :
           filtered_df[j].idx = filtered_df[k].idx => j = k
    /\ pc # "done" =>
           \A j, k \in 1..Len(filtered_df) :
               j < k => filtered_df[j].idx < filtered_df[k].idx

\* C5 happens: the masks dropped the first row of a two-row table and the
\* viewer has sorted what is left
C5_Witness ==
    /\ pc = "done"
    /\ Len(df.rows) = 2
    /\ Len(filtered_df) = 1
    /\ filtered_df[1].idx = 1

\* the role's entry in meta is the first alias, in list order, among the columns
Resolved(col, candidates) ==
    IF Range(candidates) \cap Range(df.columns) = {}
    THEN col = None
    ELSE \E i \in 1..Len(candidates) :
             /\ col = candidates[i]
             /\ col \in Range(df.columns)
             /\ \A j \in 1..(i - 1) : candidates[j] \notin Range(df.columns)

\* C6: load_data maps every role to the alias that comes first in the role's
\* candidate list among the columns of the table, whatever the column order,
\* and to None when no alias is a column.
C6_ColumnResolution ==
    pc # "load" =>
        /\ Resolved(meta.title_col, TitleCandidates)
        /\ Resolved(meta.emotion_col, EmotionCandidates)
        /\ Resolved(meta.theme_col, ThemeCandidates)
        /\ Resolved(meta.source_col, SourceCandidates)
        /\ Resolved(meta.date_col, DateCandidates)
        /\ Resolved(meta.text_col, TextCandidates)
        /\ Resolved(meta.url_col, UrlCandidates)

\* C6 happens: the file has "Headline" before "Title", the title role is
\* "Title", and a role without alias is None
C6_Witness ==
    /\ pc = "sidebar"
    /\ \E i, j \in 1..Len(df.columns) :
           i < j /\ df.columns[i] = "Headline" /\ df.columns[j] = "Title"
    /\ meta.title_col = "Title"
    /\ meta.url_col = None

RECURSIVE SumCounts(_, _)
SumCounts(counts, S) ==
    IF S = {} THEN 0
    ELSE LET v == CHOOSE x \in S : TRUE
         IN  counts[v] + SumCounts(counts, S \ {v})

Missing(f, col) == {i \in 1..Len(f) : f[i].row[col] = NaN}

Conserved(col, counts) ==
    col # None =>
        /\ NaN \notin DOMAIN counts
        /\ \A i \in 1..Len(filtered_df) :
               filtered_df[i].row[col] # NaN => filtered_df[i].row[col] \in DOMAIN counts
        /\ \A v \in DOMAIN counts :
               counts[v] = Cardinality({i \in 1..Len(filtered_df) :
                                           filtered_df[i].row[col] = v})
        /\ SumCounts(counts, DOMAIN counts)
               = Len(filtered_df) - Cardinality(Missing(filtered_df, col))

\* C7: over a non-empty view the counts of each categorical role sum to the
\* number of rows minus the rows whose value is missing, each label counts
\* the rows carrying it, and no missing value is a label.
C7_CountConservation ==
    (pc = "viewer" /\ filtered_df # <<>>) =>
        /\ Conserved(meta.emotion_col, emotion_counts)
        /\ Conserved(meta.theme_col, theme_counts)
        /\ Conserved(meta.source_col, src_counts)

\* C7 happens: a two-row view with one missing emotion and one counted
C7_Witness ==
    /\ pc = "viewer"
    /\ Len(filtered_df) = 2
    /\ meta.emotion_col # None
    /\ Cardinality(Missing(filtered_df, meta.emotion_col)) = 1
    /\ SumCounts(emotion_counts, DOMAIN emotion_counts) = 1

RECURSIVE Join(_)
\* " -- ".join(segs)
Join(segs) ==
    IF Len(segs) = 1 THEN segs[1]
    ELSE segs[1] \o " " \o Dash \o " " \o Join(Tail(segs))

HasCell(col, row, na) == col # None /\ row[col] # na

TitleSegment(row) ==
    IF HasCell(meta.title_col, row, NaN) THEN row[meta.title_col] ELSE "Untitled"

\* C8 as stated: the label is the title (or "Untitled"), then the source if
\* present, then the date as YYYY-MM-DD if present; an absent or missing
\* source or date contributes no segment.
C8_LabelOmitsMissing ==
    pc = "done" =>
        \A i \in 1..Len(labels) :
            LET row == filtered_df[i].row
            IN  labels[i] = Join(
                    <<TitleSegment(row)>>
                    \o (IF HasCell(meta.source_col, row, NaN)
                        THEN <<row[meta.source_col]>> ELSE <<>>)
                    \o (IF HasCell(meta.date_col, row, NaT)
                        THEN <<strftime(row[meta.date_col])>> ELSE <<>>))

\* C8 amended: the label always has three segments; an absent or missing
\* source contributes "Unknown source" and an absent or missing date
\* contributes "No date".
C8_LabelThreeSegments ==
    pc = "done" =>
        /\ Len(labels) = Len(filtered_df)
        /\ \A i \in 1..Len(labels) :
               LET row == filtered_df[i].row
               IN  labels[i] = Join(
                       << TitleSegment(row),
                          IF HasCell(meta.source_col, row, NaN)
                          THEN row[meta.source_col] ELSE "Unknown source",
                          IF HasCell(meta.date_col, row, NaT)
                          THEN strftime(row[meta.date_col]) ELSE "No date" >>)

\* C8 happens: a complete row and a row without title and source are labelled
C8_Witness ==
    /\ pc = "done"
    /\ \E i, j \in 1..Len(labels) :
           /\ labels[i] = "Raid -- Sun -- 2024-03-01"
           /\ labels[j] = "Untitled -- Unknown source -- 2024-02-28"

\* the view is in the viewer's order
ViewOrder ==
    \A j, k \in 1..Len(filtered_df) :
        j < k =>
            IF meta.date_col # None
            THEN \/ filtered_df[k].row[meta.date_col] = NaT
                 \/ /\ filtered_df[j].row[meta.date_col] # NaT
                    /\ filtered_df[j].row[meta.date_col]
                           >= filtered_df[k].row[meta.date_col]
            ELSE filtered_df[j].idx < filtered_df[k].idx

\* C9: the row of the detail card is a row of the view whose label is the
\* chosen label, the first such row in the view's order, which is by date
\* descending when there is a date column and load order otherwise.
C9_SelectionResolution ==
    (pc = "done" /\ filtered_df # <<>>) =>
        /\ ViewOrder
        /\ \E k \in 1..Len(filtered_df) :
               /\ selected_row = filtered_df[k]
               /\ build_label(filtered_df[k].row, meta) = selected_label
               /\ \A j \in 1..(k - 1) :
                      build_label(filtered_df[j].row, meta) # selected_label

\* C9 happens: two rows share a label, the later one of the file is first in
\* the view and is the one selected
C9_Witness ==
    /\ pc = "done"
    /\ Len(labels) = 2
    /\ labels[1] = labels[2]
    /\ filtered_df[1].idx = 1
    /\ filtered_df[1].row # filtered_df[2].row
    /\ selected_row = filtered_df[1]

\* C10: with a source column, a non-empty search text and the multiselect
\* left at its default, every row of the view has a source that contains
\* the search text, case-insensitively.
C10_SourceSearchNarrows ==
    ( /\ pc = "tabs"
      /\ meta.source_col # None
      /\ source_search # ""
      /\ selected_sources = filtered_sources_list(
             unique_values(df, meta.source_col), source_search) )
    => \A k \in 1..Len(filtered_df) :
           /\ filtered_df[k].row[meta.source_col] # NaN
           /\ Contains(lower(source_search),
                       lower(filtered_df[k].row[meta.source_col]))

====
